---- MODULE Spec2Model ----
(***************************************************************************)
(* Crate derivation for Scarb-based projects                               *)
(* (crates/cairo-lang-language-server/src/project/scarb.rs):               *)
(*   scarb_metadata  - fetches scarb metadata, declaring digest          *)
(*                     dependencies and cache durability on the way;       *)
(*   project_crates  - walks the compilation units and components of the   *)
(*                     metadata and builds the list of crates.             *)
(*                                                                         *)
(* Optional values (Rust Option) are sequences of length at most one:      *)
(* <<>> is None and <<x>> is Some(x).                                      *)
(***************************************************************************)
EXTENDS Naturals, Sequences, FiniteSets

None == <<>>
Some(x) == <<x>>

Range(s) == {s[i] : i \in 1..Len(s)}

(***************************************************************************)
(* Paths.  A path is [abs, comps]: whether it starts at the root, and its  *)
(* components.  A component (a file or directory name) is the sequence of  *)
(* its dot-separated segments: lib.cairo is <<"lib", "cairo">>, src is     *)
(* <<"src">>, .hidden is <<"", "hidden">> and .. is <<"", "", "">>.        *)
(* The segment NonUtf8 stands for bytes that are not valid UTF-8.          *)
(***************************************************************************)
NonUtf8 == "<non-utf8>"
DotDot == <<"", "", "">>

MkPath(abs, comps) == [abs |-> abs, comps |-> comps]

\* Path::parent: None for the root and for the empty path.
parent(p) ==
    IF p.comps = <<>> THEN None
    ELSE Some(MkPath(p.abs, SubSeq(p.comps, 1, Len(p.comps) - 1)))

\* Path::is_absolute (Unix: the path has a root).
is_absolute(p) == p.abs

\* Path::file_name: None when the path ends in .. or has no component.
file_name(p) ==
    IF p.comps = <<>> \/ p.comps[Len(p.comps)] = DotDot THEN None
    ELSE Some(p.comps[Len(p.comps)])

\* Mutant: the extension is not cut off.
file_stem_WholeName(p) == file_name(p)

\* Path::file_stem: the file name up to its last dot; the whole name when it
\* has no dot or only a leading one.
file_stem(p) ==
    IF file_name(p) = None THEN None
    ELSE LET name == file_name(p)[1]
             before == SubSeq(name, 1, Len(name) - 1)
         IN  IF Len(name) = 1 \/ before = <<"">> THEN Some(name)
             ELSE Some(before)

\* OsStr::to_str: None unless the name is valid UTF-8.
to_str(name) == IF NonUtf8 \in Range(name) THEN None ELSE Some(name)

\* Mutant: the name is joined to the path instead of replacing its file name.
with_file_name_Joined(p, name) == MkPath(p.abs, Append(p.comps, name))

\* PathBuf::with_file_name: the last component replaced (pushed when there is
\* no file name to replace).
with_file_name(p, name) ==
    IF file_name(p) = None THEN MkPath(p.abs, Append(p.comps, name))
    ELSE MkPath(p.abs, Append(SubSeq(p.comps, 1, Len(p.comps) - 1), name))

(***************************************************************************)
(* validate_and_chop_source_path.  stat is what fs::metadata gives for   *)
(* the path: "err", "dir" or "file".  An error carries the text of its     *)
(* message and the values the message is formatted with.                   *)
(***************************************************************************)
Ok(v) == [ok |-> TRUE, val |-> Some(v), err |-> None]
Err(e) == [ok |-> FALSE, val |-> None, err |-> Some(e)]

Reason(text, crate_name, source_path) ==
    [text |-> text, crate_name |-> crate_name, source_path |-> source_path]

MsgIo == "io error when accessing source path of: {crate_name}"
MsgDir == "source path of component {crate_name} must not be a directory: {source_path}"
MsgRoot == "unexpected fs root as a source path of component {crate_name}: {source_path}"
MsgAbs == "source path must be absolute: {source_path}"
MsgStem == "failed to get file stem for component {crate_name}: {source_path}"
MsgUtf8 == "file stem is not utf-8: {source_path}"

\* Mutant: the parent is looked at before the directory test.
validate_and_chop_source_path_ParentFirst(source_path, stat, crate_name) ==
    IF stat = "err" THEN Err(Reason(MsgIo, Some(crate_name), None))
    ELSE IF parent(source_path) = None
    THEN Err(Reason(MsgRoot, Some(crate_name), Some(source_path)))
    ELSE IF ~is_absolute(parent(source_path)[1])
    THEN Err(Reason(MsgAbs, None, Some(source_path)))
    ELSE IF stat = "dir"
    THEN Err(Reason(MsgDir, Some(crate_name), Some(source_path)))
    ELSE IF file_stem(source_path) = None
    THEN Err(Reason(MsgStem, Some(crate_name), Some(source_path)))
    ELSE IF to_str(file_stem(source_path)[1]) = None
    THEN Err(Reason(MsgUtf8, None, Some(source_path)))
    ELSE Ok([root |-> parent(source_path)[1],
             file_stem |-> to_str(file_stem(source_path)[1])[1]])

validate_and_chop_source_path(source_path, stat, crate_name) ==
    IF stat = "err" THEN Err(Reason(MsgIo, Some(crate_name), None))
    ELSE IF stat = "dir"
    THEN Err(Reason(MsgDir, Some(crate_name), Some(source_path)))
    ELSE IF parent(source_path) = None
    THEN Err(Reason(MsgRoot, Some(crate_name), Some(source_path)))
    ELSE IF ~is_absolute(parent(source_path)[1])
    THEN Err(Reason(MsgAbs, None, Some(source_path)))
    ELSE IF file_stem(source_path) = None
    THEN Err(Reason(MsgStem, Some(crate_name), Some(source_path)))
    ELSE IF to_str(file_stem(source_path)[1]) = None
    THEN Err(Reason(MsgUtf8, None, Some(source_path)))
    ELSE Ok([root |-> parent(source_path)[1],
             file_stem |-> to_str(file_stem(source_path)[1])[1]])

(***************************************************************************)
(* Log records (tracing).  by is the function that logs, crate_name the    *)
(* component name the message is formatted with, when it is.               *)
(***************************************************************************)
LogRecord(level, by, text, crate_name) ==
    [level |-> level, by |-> by, text |-> text, crate_name |-> crate_name]

MsgNotScarb == "attempted to get scarb metadata for non-scarb project: {project_manifest_path}"
MsgReload == "failed to reload scarb workspace: {manifest_path}"
MsgSkipPlugin == "skipping cairo plugin compilation unit: {id}"
MsgNoPackage == "package for component is missing in scarb metadata: {crate_name}"
MsgEdition == "failed to parse edition of package: {crate_name}"
MsgCfg == "scarb metadata cfg did not convert identically to cairo one for crate: {crate_name}"
MsgNoCore == "the core crate is missing in scarb metadata, will try to use unmanaged core"

\* warn!("{e:?}") of a validation error.
WarnReason(e) == LogRecord("warn", "project_crates", e.text, e.crate_name)

(***************************************************************************)
(* Packages of the metadata document.                                      *)
(***************************************************************************)
\* metadata.packages.iter().find(|package| package.id == component.package),
\* and scarb_metadata's Metadata::get_package: the first package of that id.
find_package(packages, id) ==
    IF \E i \in 1..Len(packages) : packages[i].id = id
    THEN Some(packages[CHOOSE i \in 1..Len(packages) :
                  /\ packages[i].id = id
                  /\ \A j \in 1..(i - 1) : packages[j].id # id])
    ELSE None

(***************************************************************************)
(* Settings.  Each mapper returns its value and the warnings it logged.    *)
(***************************************************************************)
\* Edition (cairo_lang_filesystem::db): the names serde reads, and Default.
EditionNames ==
    [n \in {"2023_01", "2023_10", "2023_11", "2024_07"} |->
        CASE n = "2023_01" -> "V2023_01"
          [] n = "2023_10" -> "V2023_10"
          [] n = "2023_11" -> "V2023_11"
          [] n = "2024_07" -> "V2024_07"]

Edition_default == "V2023_01"

\* serde_json::from_value::<Edition>.
edition_from_value(e) ==
    IF e \in DOMAIN EditionNames THEN Some(EditionNames[e]) ELSE None

\* Mutant: an absent edition is handled like one that does not parse.
scarb_package_edition_WarnAbsent(package, crate_name) ==
    IF package = None THEN [value |-> Edition_default, warns |-> <<>>]
    ELSE LET parsed == IF package[1].edition = None THEN None
                       ELSE edition_from_value(package[1].edition[1])
         IN  IF parsed = None
             THEN [value |-> Edition_default,
                   warns |-> <<LogRecord("warn", "project_crates", MsgEdition,
                                         Some(crate_name))>>]
             ELSE [value |-> parsed[1], warns |-> <<>>]

scarb_package_edition(package, crate_name) ==
    IF package = None \/ package[1].edition = None
    THEN [value |-> Edition_default, warns |-> <<>>]
    ELSE LET parsed == edition_from_value(package[1].edition[1])
         IN  IF parsed = None
             THEN [value |-> Edition_default,
                   warns |-> <<LogRecord("warn", "project_crates", MsgEdition,
                                         Some(crate_name))>>]
             ELSE [value |-> parsed[1], warns |-> <<>>]

\* serde_json::to_value(cfg_set).and_then(serde_json::from_value): a Cfg of
\* scarb converts to one of cairo when its shape is the one cairo reads; one
\* item that does not convert fails the whole set.
cfg_from_value(cfg_set) ==
    IF \A i \in 1..Len(cfg_set) : cfg_set[i].shape_ok
    THEN Some({[key |-> cfg_set[i].key, value |-> cfg_set[i].value] :
                 i \in 1..Len(cfg_set)})
    ELSE None

scarb_cfg_set_to_cairo(cfg_set, crate_name) ==
    LET converted == cfg_from_value(cfg_set)
    IN  IF converted = None
        THEN [value |-> None,
              warns |-> <<LogRecord("warn", "project_crates", MsgCfg,
                                    Some(crate_name))>>]
        ELSE [value |-> converted, warns |-> <<>>]

contains(package, feature) ==
    IF package = None THEN FALSE
    ELSE feature \in package[1].experimental_features

scarb_package_experimental_features(package) ==
    [negative_impls |-> contains(package, "negative_impls"),
     coupons |-> contains(package, "coupons")]

\* Crate::is_core.
is_core(cr) == cr.name = "core"

\* The body of the loop over a unit's components: the log records and the
\* crate (none when the source path fails validation) one component gives.
LibStem == <<"lib">>

component_step(packages, unit_cfg, component, stat) ==
    LET crate_name == component.name
        package == find_package(packages, component.package)
        w_pkg == IF package = None
                 THEN <<LogRecord("warn", "project_crates", MsgNoPackage,
                                  Some(crate_name))>>
                 ELSE <<>>
        chopped == validate_and_chop_source_path(component.source_path, stat,
                                                 crate_name)
    IN  IF ~chopped.ok
        THEN [crate |-> None, logs |-> w_pkg \o <<WarnReason(chopped.err[1])>>]
        ELSE LET root == chopped.val[1].root
                 stem == chopped.val[1].file_stem
                 edition == scarb_package_edition(package, crate_name)
                 cfg_set == scarb_cfg_set_to_cairo(
                                IF component.cfg # None THEN component.cfg[1]
                                ELSE unit_cfg, crate_name)
                 features == scarb_package_experimental_features(package)
             IN  [crate |-> Some(
                      [name |-> crate_name,
                       root |-> root,
                       custom_main_file_stem |->
                           IF stem # LibStem THEN Some(stem) ELSE None,
                       settings |-> [edition |-> edition.value,
                                     cfg_set |-> cfg_set.value,
                                     experimental_features |-> features]]),
                  logs |-> w_pkg \o edition.warns \o cfg_set.warns]

(***************************************************************************)
(* The inputs: projects, the file tree, metadata documents.                *)
(***************************************************************************)
N(name) == <<name>>
File(stem, ext) == <<stem, ext>>

ScarbToml == File("Scarb", "toml")
SCARB_LOCK == File("Scarb", "lock")

PkgManifest == MkPath(TRUE, <<N("abs"), N("pkg"), ScarbToml>>)
CoreManifest == MkPath(TRUE, <<N("abs"), N("core"), ScarbToml>>)
DepManifest == MkPath(TRUE, <<N("abs"), N("dep"), ScarbToml>>)
CairoProjectToml == MkPath(TRUE, <<N("abs"), N("pkg"), File("cairo_project", "toml")>>)

\* ProjectManifestPath: a Scarb manifest, or a cairo_project.toml.
Projects ==
    {[kind |-> "Scarb", path |-> PkgManifest],
     [kind |-> "Scarb", path |-> CoreManifest],
     [kind |-> "CairoProject", path |-> CairoProjectToml]}

CoreLib == MkPath(TRUE, <<N("abs"), N("core"), N("src"), File("lib", "cairo")>>)
PkgMain == MkPath(TRUE, <<N("abs"), N("pkg"), N("src"), File("mypkg_main", "cairo")>>)
PkgDir == MkPath(TRUE, <<N("abs"), N("pkg")>>)
RelLib == MkPath(FALSE, <<N("src"), File("lib", "cairo")>>)
Gone == MkPath(TRUE, <<N("abs"), N("gone"), File("lib", "cairo")>>)

\* fs::metadata on the file tree the server runs on: the two entry files, a
\* src/lib.cairo under the working directory, the directories above them;
\* any other path does not exist.
fs_metadata(path) ==
    IF path \in {CoreLib, PkgMain, RelLib} THEN "file"
    ELSE IF \E f \in {CoreLib, PkgMain, RelLib} :
               /\ path.abs = f.abs
               /\ Len(path.comps) < Len(f.comps)
               /\ path.comps = SubSeq(f.comps, 1, Len(path.comps))
    THEN "dir"
    ELSE "err"

CfgItem(key, value, shape_ok) == [key |-> key, value |-> value, shape_ok |-> shape_ok]

CfgGood == <<CfgItem("target", Some("lib"), TRUE), CfgItem("test", None, TRUE)>>
CfgOwn == <<CfgItem("feature", Some("x"), TRUE)>>
CfgBad == <<CfgItem("target", Some("lib"), TRUE), CfgItem("odd", None, FALSE)>>

Package(id, edition, features, manifest) ==
    [id |-> id, edition |-> edition, experimental_features |-> features,
     manifest_path |-> manifest]

Component(name, package, source_path, cfg) ==
    [name |-> name, package |-> package, source_path |-> source_path, cfg |-> cfg]

Unit(kind, cfg, components) == [kind |-> kind, cfg |-> cfg, components |-> components]

Header(packages, members) == [packages |-> packages, members |-> members]

(***************************************************************************)
(* State.                                                                  *)
(***************************************************************************)
VARIABLES
    pc,             \* where the run of project_crates is
    project,        \* the project's manifest path (project.lookup_intern(db))
    metadata,       \* what the build tool returned: None, or packages and members
    units,          \* the compilation units of the document read so far
    crates,         \* project_crates' vector of crates
    log,            \* the records logged, in order
    digests,        \* the paths given to report_digest_dependency, in order
    synthetic_low,  \* report_synthetic_read(Durability::LOW) was called
    untracked,      \* report_untracked_read() was called
    member,         \* index of the next workspace member of scarb_metadata's loop
    call,           \* a direct call of validate_and_chop_source_path, if any
    ret             \* and what it returned

vars == <<pc, project, metadata, units, crates, log, digests, synthetic_low,
          untracked, member, call, ret>>

Init ==
    /\ pc = "start"
    /\ project \in Projects
    /\ metadata = None
    /\ units = <<>>
    /\ crates = <<>>
    /\ log = <<>>
    /\ digests = <<>>
    /\ synthetic_low = FALSE
    /\ untracked = FALSE
    /\ member = 1
    /\ call = None
    /\ ret = None

\* report_digest_dependency: the declaration is recorded; none is dropped.
report_digest_dependency(declared, path) == Append(declared, path)

(***************************************************************************)
(* scarb_metadata, step by step.                                           *)
(***************************************************************************)
\* project.lookup_intern(db) and the let-else on ProjectManifestPath::Scarb.
LookupIntern ==
    /\ pc = "start"
    /\ IF project.kind = "Scarb"
       THEN /\ pc' = "report_manifest"
            /\ log' = log
       ELSE /\ pc' = "resume"
            /\ log' = Append(log, LogRecord("warn", "scarb_metadata", MsgNotScarb, None))
    /\ UNCHANGED <<project, metadata, units, crates, digests, synthetic_low,
                   untracked, member, call, ret>>

ReportManifest ==
    /\ pc = "report_manifest"
    /\ digests' = report_digest_dependency(digests, project.path)
    /\ pc' = "report_lock"
    /\ UNCHANGED <<project, metadata, units, crates, log, synthetic_low,
                   untracked, member, call, ret>>

ReportLock ==
    /\ pc = "report_lock"
    /\ digests' = report_digest_dependency(digests,
                                           with_file_name(project.path, SCARB_LOCK))
    /\ pc' = "synthetic_read"
    /\ UNCHANGED <<project, metadata, units, crates, log, synthetic_low,
                   untracked, member, call, ret>>

ReportSyntheticRead ==
    /\ pc = "synthetic_read"
    /\ synthetic_low' = TRUE
    /\ pc' = "invoke"
    /\ UNCHANGED <<project, metadata, units, crates, log, digests, untracked,
                   member, call, ret>>

\* Mutant: the failure is logged and the untracked read is not reported.
ToolFails_NoUntrackedRead ==
    /\ log' = Append(log, LogRecord("error", "scarb_metadata", MsgReload, None))
    /\ pc' = "resume"
    /\ UNCHANGED <<metadata, member, untracked>>

\* db.scarb_toolchain().metadata(&manifest_path): the tool fails, or gives a
\* document (its packages and workspace members; the units are read later).
ToolFails ==
    /\ untracked' = TRUE
    /\ log' = Append(log, LogRecord("error", "scarb_metadata", MsgReload, None))
    /\ pc' = "resume"
    /\ UNCHANGED <<metadata, member>>

ToolSucceeds(h) ==
    /\ metadata' = Some(h)
    /\ member' = 1
    /\ pc' = "members"
    /\ UNCHANGED <<untracked, log>>

Invoke(Headers) ==
    /\ pc = "invoke"
    /\ \/ ToolFails
       \/ \E h \in Headers : ToolSucceeds(h)
    /\ UNCHANGED <<project, units, crates, digests, synthetic_low, call, ret>>

\* Mutant: only the first member's manifest is declared.
ReportMember_FirstOnly ==
    /\ pc = "members"
    /\ member <= Len(metadata[1].members)
    /\ LET package == find_package(metadata[1].packages, metadata[1].members[member])
       IN  digests' = IF package # None /\ member = 1
                      THEN report_digest_dependency(digests, package[1].manifest_path)
                      ELSE digests
    /\ member' = member + 1
    /\ UNCHANGED <<pc, project, metadata, units, crates, log, synthetic_low,
                   untracked, call, ret>>

\* One turn of the loop over metadata.workspace.members.
ReportMember ==
    /\ pc = "members"
    /\ member <= Len(metadata[1].members)
    /\ LET package == find_package(metadata[1].packages, metadata[1].members[member])
       IN  digests' = IF package # None
                      THEN report_digest_dependency(digests, package[1].manifest_path)
                      ELSE digests
    /\ member' = member + 1
    /\ UNCHANGED <<pc, project, metadata, units, crates, log, synthetic_low,
                   untracked, call, ret>>

\* Some(metadata)
ReturnMetadata ==
    /\ pc = "members"
    /\ member > Len(metadata[1].members)
    /\ pc' = "resume"
    /\ UNCHANGED <<project, metadata, units, crates, log, digests, synthetic_low,
                   untracked, member, call, ret>>

(***************************************************************************)
(* project_crates, from the return of db.scarb_metadata(project) on.       *)
(***************************************************************************)
\* Mutant: without metadata the function skips the loop instead of returning.
Resume_FallThrough ==
    /\ pc = "resume"
    /\ pc' = IF metadata = None THEN "done" ELSE "units"
    /\ crates' = <<>>
    /\ log' = IF metadata = None
              THEN Append(log, LogRecord("warn", "project_crates", MsgNoCore, None))
              ELSE log
    /\ UNCHANGED <<project, metadata, units, digests, synthetic_low,
                   untracked, member, call, ret>>

\* let Some(metadata) = db.scarb_metadata(project) else { return [].into() }
Resume ==
    /\ pc = "resume"
    /\ pc' = IF metadata = None THEN "done" ELSE "units"
    /\ crates' = <<>>
    /\ UNCHANGED <<project, metadata, units, log, digests, synthetic_low,
                   untracked, member, call, ret>>

ComponentsRead ==
    LET Count[i \in 0..Len(units)] ==
            IF i = 0 THEN 0
            ELSE Count[i - 1] + (IF units[i].kind = "cairo-plugin" THEN 0
                                 ELSE Len(units[i].components))
    IN  Count[Len(units)]

\* The outer loop reaches the next compilation unit of the document.
NextUnit(Units, max_units) ==
    /\ pc = "units"
    /\ Len(units) < max_units
    /\ \E u \in Units :
        /\ units' = Append(units, u)
        /\ log' = IF u.kind = "cairo-plugin"
                  THEN Append(log, LogRecord("debug", "project_crates",
                                             MsgSkipPlugin, None))
                  ELSE log
    /\ UNCHANGED <<pc, project, metadata, crates, digests, synthetic_low,
                   untracked, member, call, ret>>

\* Mutant: the crate is put in front of the vector.
NextComponent_Prepend(Components, max_components) ==
    /\ pc = "units"
    /\ units # <<>>
    /\ units[Len(units)].kind # "cairo-plugin"
    /\ ComponentsRead < max_components
    /\ \E c \in Components :
        LET unit == units[Len(units)]
            step == component_step(metadata[1].packages, unit.cfg, c,
                                   fs_metadata(c.source_path))
        IN  /\ units' = [units EXCEPT ![Len(units)].components = Append(@, c)]
            /\ log' = log \o step.logs
            /\ crates' = IF step.crate = None THEN crates
                         ELSE <<step.crate[1]>> \o crates
    /\ UNCHANGED <<pc, project, metadata, digests, synthetic_low, untracked,
                   member, call, ret>>

\* The inner loop reaches the next component of the current unit.
NextComponent(Components, max_components) ==
    /\ pc = "units"
    /\ units # <<>>
    /\ units[Len(units)].kind # "cairo-plugin"
    /\ ComponentsRead < max_components
    /\ \E c \in Components :
        LET unit == units[Len(units)]
            step == component_step(metadata[1].packages, unit.cfg, c,
                                   fs_metadata(c.source_path))
        IN  /\ units' = [units EXCEPT ![Len(units)].components = Append(@, c)]
            /\ log' = log \o step.logs
            /\ crates' = IF step.crate = None THEN crates
                         ELSE Append(crates, step.crate[1])
    /\ UNCHANGED <<pc, project, metadata, digests, synthetic_low, untracked,
                   member, call, ret>>

\* Mutant: the warning is given for an empty vector only.
Finish_WarnIfEmpty ==
    /\ pc = "units"
    /\ log' = IF crates = <<>>
              THEN Append(log, LogRecord("warn", "project_crates", MsgNoCore, None))
              ELSE log
    /\ pc' = "done"
    /\ UNCHANGED <<project, metadata, units, crates, digests, synthetic_low,
                   untracked, member, call, ret>>

\* The document has no further unit: the check for core, and the return.
Finish ==
    /\ pc = "units"
    /\ log' = IF ~\E i \in 1..Len(crates) : is_core(crates[i])
              THEN Append(log, LogRecord("warn", "project_crates", MsgNoCore, None))
              ELSE log
    /\ pc' = "done"
    /\ UNCHANGED <<project, metadata, units, crates, digests, synthetic_low,
                   untracked, member, call, ret>>

\* A direct call of validate_and_chop_source_path.
Validate ==
    /\ pc = "call"
    /\ call # None
    /\ ret = None
    /\ ret' = Some(validate_and_chop_source_path(call[1].source_path, call[1].stat,
                                                  call[1].crate_name))
    /\ UNCHANGED <<pc, project, metadata, units, crates, log, digests,
                   synthetic_low, untracked, member, call>>

Fetch(Headers) ==
    \/ LookupIntern
    \/ ReportManifest
    \/ ReportLock
    \/ ReportSyntheticRead
    \/ Invoke(Headers)
    \/ ReportMember
    \/ ReturnMetadata

Resolve(Units, Components, max_units, max_components) ==
    \/ Resume
    \/ NextUnit(Units, max_units)
    \/ NextComponent(Components, max_components)
    \/ Finish

(***************************************************************************)
(* Spec: a run of project_crates over documents whose components differ in *)
(* name and source path.                                                   *)
(***************************************************************************)
MaxUnits == 2
MaxComponents == 2

CrateNames == {"core", "mypkg"}
PkgIdOf(name) == IF name = "core" THEN "core-pkg" ELSE "mypkg-pkg"

CorePkg == Package("core-pkg", None, {}, CoreManifest)
MyPkg == Package("mypkg-pkg", Some("2024_07"), {"negative_impls"}, PkgManifest)

OrderHeaders == {Header(<<CorePkg, MyPkg>>, <<"mypkg-pkg">>)}

OrderPaths == {CoreLib, PkgMain, PkgDir, RelLib, Gone}

OrderComponents ==
    {Component(n, PkgIdOf(n), p, None) : n \in CrateNames, p \in OrderPaths}

OrderUnits ==
    {Unit("lib", CfgGood, <<>>),
     Unit("cairo-plugin", CfgGood, <<>>),
     Unit("cairo-plugin", CfgGood, <<Component("core", "core-pkg", CoreLib, None)>>)}

Next ==
    \/ Fetch(OrderHeaders)
    \/ Resolve(OrderUnits, OrderComponents, MaxUnits, MaxComponents)

Spec == Init /\ [][Next]_vars

(***************************************************************************)
(* SpecSettings: a run of project_crates over documents whose packages and *)
(* components differ in edition, features and configuration flags.         *)
(***************************************************************************)
MaxSettingsUnits == 1
MaxSettingsComponents == 1

EditionFields == {None, Some("2023_01"), Some("2024_07"), Some("2099_01")}
FeatureLists == {{}, {"negative_impls"}, {"coupons", "corelib_internal"},
                 {"negative_impls", "coupons"}}

SettingsHeaders ==
    {Header(<<Package("mypkg-pkg", e, f, PkgManifest)>>, <<"mypkg-pkg">>) :
        e \in EditionFields, f \in FeatureLists}

SettingsComponents ==
    {Component("mypkg", pkg, p, cfg) :
        pkg \in {"mypkg-pkg", "ghost-pkg"},
        p \in {PkgMain, PkgDir},
        cfg \in {None, Some(CfgOwn), Some(CfgBad)}}

SettingsUnits ==
    {Unit("lib", CfgGood, <<>>), Unit("lib", CfgBad, <<>>),
     Unit("cairo-plugin", CfgGood, <<Component("mypkg", "mypkg-pkg", PkgMain, None)>>)}

NextSettings ==
    \/ Fetch(SettingsHeaders)
    \/ Resolve(SettingsUnits, SettingsComponents, MaxSettingsUnits,
               MaxSettingsComponents)

SpecSettings == Init /\ [][NextSettings]_vars

(***************************************************************************)
(* SpecFetch: runs of scarb_metadata over documents that differ in         *)
(* packages and workspace members.                                         *)
(***************************************************************************)
MaxMembers == 2

DepPkg == Package("dep-pkg", None, {}, DepManifest)

RECURSIVE SeqsUpTo(_, _)
SeqsUpTo(S, n) ==
    IF n = 0 THEN {<<>>}
    ELSE LET shorter == SeqsUpTo(S, n - 1)
         IN  shorter \cup {Append(s, x) : s \in shorter, x \in S}

FetchHeaders ==
    {Header(pkgs, members) :
        pkgs \in {<<MyPkg>>, <<MyPkg, DepPkg>>, <<CorePkg, DepPkg>>},
        members \in SeqsUpTo({"mypkg-pkg", "dep-pkg", "ghost-pkg"}, MaxMembers)}

NextFetch == Fetch(FetchHeaders)

SpecFetch == Init /\ [][NextFetch]_vars

(***************************************************************************)
(* SpecPath: direct calls of validate_and_chop_source_path, on paths of up *)
(* to MaxPathLen components and what fs::metadata can give for each.       *)
(***************************************************************************)
MaxPathLen == 2

PathNames ==
    {N("src"), File("lib", "cairo"), File("mypkg_main", "cairo"), N("lib"),
     <<"", "hidden">>, <<"lib", "test", "cairo">>, DotDot,
     File(NonUtf8, "cairo"), File("lib", NonUtf8)}

CallPaths == {MkPath(abs, comps) : abs \in BOOLEAN, comps \in SeqsUpTo(PathNames, MaxPathLen)}

\* What fs::metadata can give: the empty path does not exist, and the root
\* and a path ending in .. are directories when they exist.
StatOutcomes(path) ==
    IF path.comps = <<>> THEN (IF path.abs THEN {"dir"} ELSE {"err"})
    ELSE IF path.comps[Len(path.comps)] = DotDot THEN {"err", "dir"}
    ELSE {"err", "dir", "file"}

InitPath ==
    /\ pc = "call"
    /\ project \in Projects
    /\ metadata = None
    /\ units = <<>>
    /\ crates = <<>>
    /\ log = <<>>
    /\ digests = <<>>
    /\ synthetic_low = FALSE
    /\ untracked = FALSE
    /\ member = 1
    /\ \E path \in CallPaths : \E stat \in StatOutcomes(path) :
          call = Some([source_path |-> path, stat |-> stat, crate_name |-> "mypkg"])
    /\ ret = None

NextPath == Validate

SpecPath == InitPath /\ [][NextPath]_vars

(***************************************************************************)
(* What the claims speak of, stated without the operators above.           *)
(***************************************************************************)
Traversing == pc \in {"units", "done"} /\ metadata # None

\* The components of the non-plugin units read so far, in document order,
\* each with the flags of its unit.
DocComponents ==
    LET OfUnit(u) == [i \in 1..Len(u.components) |->
                         [component |-> u.components[i], unit_cfg |-> u.cfg]]
        Upto[i \in 0..Len(units)] ==
            IF i = 0 THEN <<>>
            ELSE IF units[i].kind = "cairo-plugin" THEN Upto[i - 1]
            ELSE Upto[i - 1] \o OfUnit(units[i])
    IN  Upto[Len(units)]

LastName(path) == path.comps[Len(path.comps)]
DirOf(path) == MkPath(path.abs, SubSeq(path.comps, 1, Len(path.comps) - 1))
StemOf(name) ==
    IF Len(name) = 1 \/ (Len(name) = 2 /\ name[1] = "") THEN name
    ELSE SubSeq(name, 1, Len(name) - 1)

\* The six checks of the validator, each on its own.
CheckStat(path, stat) == stat # "err"
CheckNotDir(path, stat) == stat # "dir"
CheckHasParent(path, stat) == path.comps # <<>>
CheckParentAbsolute(path, stat) == path.abs
CheckHasStem(path, stat) == path.comps # <<>> /\ LastName(path) # DotDot
CheckStemIsText(path, stat) ==
    (path.comps # <<>> /\ LastName(path) # DotDot)
        => \A i \in 1..Len(StemOf(LastName(path))) :
              StemOf(LastName(path))[i] # NonUtf8

CheckPasses(k, path, stat) ==
    CASE k = 1 -> CheckStat(path, stat)
      [] k = 2 -> CheckNotDir(path, stat)
      [] k = 3 -> CheckHasParent(path, stat)
      [] k = 4 -> CheckParentAbsolute(path, stat)
      [] k = 5 -> CheckHasStem(path, stat)
      [] k = 6 -> CheckStemIsText(path, stat)

Violated(path, stat) == {k \in 1..6 : ~CheckPasses(k, path, stat)}
FirstViolated(path, stat) ==
    CHOOSE k \in Violated(path, stat) : \A j \in Violated(path, stat) : k <= j

ReasonTexts == <<MsgIo, MsgDir, MsgRoot, MsgAbs, MsgStem, MsgUtf8>>

Validates(dc) ==
    Violated(dc.component.source_path, fs_metadata(dc.component.source_path)) = {}

Keep(seq, Test(_)) ==
    LET F[i \in 0..Len(seq)] ==
            IF i = 0 THEN <<>>
            ELSE IF Test(seq[i]) THEN Append(F[i - 1], seq[i]) ELSE F[i - 1]
    IN  F[Len(seq)]

\* The components that are to give a crate, in document order.
Resolvable == Keep(DocComponents, Validates)

Logged(text) == {i \in 1..Len(log) : log[i].text = text}

(***************************************************************************)
(* C1: with metadata present, project_crates returns exactly one crate for *)
(* each component of each non-plugin unit whose source path passes         *)
(* validation, in document order (units in order, components in order      *)
(* within a unit), same-named crates of different units all kept; plugin   *)
(* units and components that fail validation give none.                    *)
(***************************************************************************)
C1_CratesFollowDocument ==
    Traversing =>
        /\ Len(crates) = Len(Resolvable)
        /\ \A i \in 1..Len(crates) :
              /\ crates[i].name = Resolvable[i].component.name
              /\ crates[i].root = DirOf(Resolvable[i].component.source_path)

C1_Witness ==
    /\ pc = "done"
    /\ Len(units) = 2
    /\ units[1].kind = "cairo-plugin" /\ Len(units[1].components) = 1
    /\ units[2].kind = "lib" /\ Len(units[2].components) = 2
    /\ units[2].components[1] = Component("mypkg", "mypkg-pkg", PkgDir, None)
    /\ units[2].components[2] = Component("mypkg", "mypkg-pkg", PkgMain, None)
    /\ Len(crates) = 1

(***************************************************************************)
(* C2: when the metadata fetch yields none (the project is not a Scarb     *)
(* project, or the tool fails), project_crates returns the empty sequence  *)
(* and logs nothing itself: every record of the log is scarb_metadata's.   *)
(***************************************************************************)
C2_NoMetadataGivesNothing ==
    (pc = "done" /\ metadata = None) =>
        /\ crates = <<>>
        /\ \A i \in 1..Len(log) : log[i].by # "project_crates"

C2_Witness ==
    /\ pc = "done"
    /\ metadata = None
    /\ untracked
    /\ crates = <<>>
    /\ Len(log) = 1 /\ log[1].level = "error"

(***************************************************************************)
(* C3: for a Scarb project, the digest dependencies on the manifest and on *)
(* the lock file beside it are declared before the tool is invoked, hence  *)
(* in every state where the invocation has failed; no declaration is ever  *)
(* removed.                                                                *)
(***************************************************************************)
LockOf(manifest) == MkPath(manifest.abs, Append(DirOf(manifest).comps, <<"Scarb", "lock">>))

ManifestAndLockDeclared ==
    /\ project.path \in Range(digests)
    /\ LockOf(project.path) \in Range(digests)

C3_DeclaredBeforeInvocation ==
    /\ [](pc = "invoke" => ManifestAndLockDeclared)
    /\ [](untracked => ManifestAndLockDeclared)
    /\ [][/\ Len(digests') >= Len(digests)
          /\ SubSeq(digests', 1, Len(digests)) = digests]_vars

C3_Witness ==
    /\ pc = "resume"
    /\ metadata = None
    /\ untracked
    /\ digests = <<project.path, LockOf(project.path)>>

(***************************************************************************)
(* C4 (as stated): the low-durability marking is made exactly in the runs  *)
(* whose invocation does not fail, the untracked-read marking exactly in   *)
(* the runs whose invocation fails.                                        *)
(***************************************************************************)
InvocationFailed == project.kind = "Scarb" /\ pc = "resume" /\ metadata = None
InvocationSucceeded == pc = "resume" /\ metadata # None

C4_Original ==
    pc = "resume" =>
        /\ synthetic_low <=> InvocationSucceeded
        /\ untracked <=> InvocationFailed

(***************************************************************************)
(* C4 (amended): the low-durability marking is made in every run that      *)
(* reaches the invocation, that is for every Scarb project, whether the    *)
(* invocation fails or not; the untracked-read marking is made exactly in  *)
(* the runs whose invocation fails, and then on top of the low marking.    *)
(***************************************************************************)
C4_LowAlwaysUntrackedOnFailure ==
    /\ pc = "resume" =>
          /\ synthetic_low <=> project.kind = "Scarb"
          /\ untracked <=> InvocationFailed
    /\ untracked => synthetic_low
    /\ untracked => metadata = None

C4_Witness ==
    /\ pc = "resume"
    /\ InvocationFailed
    /\ synthetic_low
    /\ untracked

(***************************************************************************)
(* C5: when the invocation succeeds, the manifest of every package that is *)
(* a workspace member is declared by the time the metadata is returned;    *)
(* when the fetch returns none, nothing but the manifest and the lock file *)
(* has been declared.                                                      *)
(***************************************************************************)
MemberManifests ==
    {metadata[1].packages[i].manifest_path :
        i \in {j \in 1..Len(metadata[1].packages) :
                  metadata[1].packages[j].id \in Range(metadata[1].members)}}

C5_MemberManifestsDeclared ==
    /\ (pc = "resume" /\ metadata # None) =>
          /\ MemberManifests \subseteq Range(digests)
          /\ Range(digests) =
                {project.path, LockOf(project.path)} \cup MemberManifests
    /\ (pc = "resume" /\ metadata = None) =>
          /\ Len(digests) <= 2
          /\ Range(digests) \subseteq {project.path, LockOf(project.path)}

C5_Witness ==
    /\ pc = "resume"
    /\ metadata # None
    /\ metadata[1].members = <<"ghost-pkg", "dep-pkg">>
    /\ Len(metadata[1].packages) = 2
    /\ DepManifest \in Range(digests)
    /\ Len(digests) = 3

(***************************************************************************)
(* C6: with metadata present, the missing-core warning is logged if and    *)
(* only if no returned crate is core (also when the only core component    *)
(* failed validation or sat in a plugin unit); it is logged at the end     *)
(* only, and logging it leaves the crates as they were.                    *)
(***************************************************************************)
NoCoreAmongCrates == \A i \in 1..Len(crates) : crates[i].name # "core"

C6_MissingCoreWarning ==
    /\ []((pc = "done" /\ metadata # None) =>
            (Logged(MsgNoCore) # {} <=> NoCoreAmongCrates))
    /\ [](pc # "done" => Logged(MsgNoCore) = {})
    /\ [][(pc = "units" /\ pc' = "done") => crates' = crates]_vars

C6_Witness ==
    /\ pc = "done"
    /\ metadata # None
    /\ Len(units) = 2
    /\ units[1].kind = "cairo-plugin" /\ Len(units[1].components) = 1
    /\ units[1].components[1].name = "core"
    /\ units[2].kind = "lib" /\ Len(units[2].components) = 2
    /\ units[2].components[1] = Component("core", "core-pkg", PkgDir, None)
    /\ units[2].components[2] = Component("mypkg", "mypkg-pkg", PkgMain, None)
    /\ Len(crates) = 1
    /\ Logged(MsgNoCore) # {}

(***************************************************************************)
(* C7: a defect of the settings never drops a component.  Every component  *)
(* whose source path validates gives a crate.  Its package missing: a      *)
(* warning, the default edition, every experimental toggle false.  Its     *)
(* edition present but unknown: the default edition and a warning; absent: *)
(* the default edition and no warning.  Its flags (its own, else the       *)
(* unit's) not convertible: no flag set, and a warning.                    *)
(***************************************************************************)
EditionValues ==
    {<<"2023_01", "V2023_01">>, <<"2023_10", "V2023_10">>,
     <<"2023_11", "V2023_11">>, <<"2024_07", "V2024_07">>}
KnownEditions == {ev[1] : ev \in EditionValues}

PackagesOf(dc) ==
    {metadata[1].packages[i] :
        i \in {j \in 1..Len(metadata[1].packages) :
                  metadata[1].packages[j].id = dc.component.package}}

PackageMissing(dc) == PackagesOf(dc) = {}
EditionField(dc) == (CHOOSE pkg \in PackagesOf(dc) : TRUE).edition
EditionUnknown(dc) ==
    /\ ~PackageMissing(dc)
    /\ EditionField(dc) # None
    /\ EditionField(dc)[1] \notin KnownEditions
EditionDefaulted(dc) ==
    PackageMissing(dc) \/ EditionField(dc) = None \/ EditionUnknown(dc)
FlagsOf(dc) == IF dc.component.cfg # None THEN dc.component.cfg[1] ELSE dc.unit_cfg
FlagsBad(dc) == \E i \in 1..Len(FlagsOf(dc)) : ~FlagsOf(dc)[i].shape_ok

HowMany(seq, Test(_)) == Len(Keep(seq, Test))

C7_SettingsDefectsKeepComponent ==
    Traversing =>
        /\ Len(crates) = Len(Resolvable)
        /\ \A i \in 1..Len(crates) :
            LET dc == Resolvable[i]
                st == crates[i].settings
            IN  /\ crates[i].name = dc.component.name
                /\ EditionDefaulted(dc) => st.edition = "V2023_01"
                /\ ~EditionDefaulted(dc) =>
                      <<EditionField(dc)[1], st.edition>> \in EditionValues
                /\ PackageMissing(dc) =>
                      /\ ~st.experimental_features.negative_impls
                      /\ ~st.experimental_features.coupons
                /\ FlagsBad(dc) <=> st.cfg_set = None
        /\ Cardinality(Logged(MsgNoPackage)) = HowMany(DocComponents, PackageMissing)
        /\ Cardinality(Logged(MsgEdition)) = HowMany(Resolvable, EditionUnknown)
        /\ Cardinality(Logged(MsgCfg)) = HowMany(Resolvable, FlagsBad)

C7_Witness ==
    /\ pc = "done"
    /\ metadata # None
    /\ metadata[1].packages[1].edition = Some("2099_01")
    /\ Len(units) = 1
    /\ units[1] = Unit("lib", CfgBad, <<Component("mypkg", "ghost-pkg", PkgMain, None)>>)
    /\ Len(crates) = 1
    /\ crates[1].settings.cfg_set = None
    /\ crates[1].settings.edition = "V2023_01"
    /\ Logged(MsgEdition) = {}
    /\ Logged(MsgNoPackage) # {}
    /\ Logged(MsgCfg) # {}

(***************************************************************************)
(* C8: the root of every crate is the parent directory of its component's  *)
(* source path, and its custom main-file stem is present if and only if    *)
(* the stem of the source file is not lib, and is then that stem.          *)
(***************************************************************************)
C8_RootAndStem ==
    Traversing =>
        \A i \in 1..Len(crates) :
            i <= Len(Resolvable) =>
              LET path == Resolvable[i].component.source_path
                  stem == StemOf(LastName(path))
              IN  /\ crates[i].root = DirOf(path)
                  /\ crates[i].custom_main_file_stem =
                        IF stem = <<"lib">> THEN None ELSE Some(stem)

C8_Witness ==
    /\ pc = "done"
    /\ Len(crates) = 2
    /\ crates[1].name = "core"
    /\ crates[1].root = MkPath(TRUE, <<N("abs"), N("core"), N("src")>>)
    /\ crates[1].custom_main_file_stem = None
    /\ crates[2].name = "mypkg"
    /\ crates[2].root = MkPath(TRUE, <<N("abs"), N("pkg"), N("src")>>)
    /\ crates[2].custom_main_file_stem = Some(<<"mypkg_main">>)

(***************************************************************************)
(* C9: validate_and_chop_source_path fails with the reason of the first of *)
(* its six checks (stat succeeds, not a directory, has a parent, parent    *)
(* absolute, has a file stem, stem is valid text) that is violated, the    *)
(* six reasons differing from one another; it succeeds, with the parent    *)
(* directory and the file stem, if and only if all six checks pass.        *)
(***************************************************************************)
C9_FirstViolatedCheckDecides ==
    ret # None =>
        LET path == call[1].source_path
            stat == call[1].stat
            r == ret[1]
        IN  /\ r.ok <=> Violated(path, stat) = {}
            /\ r.ok => r.val = Some([root |-> DirOf(path),
                                     file_stem |-> StemOf(LastName(path))])
            /\ ~r.ok => r.err[1].text = ReasonTexts[FirstViolated(path, stat)]
            /\ \A j, k \in 1..6 : j # k => ReasonTexts[j] # ReasonTexts[k]

C9_Witness ==
    /\ ret # None
    /\ call[1].stat = "file"
    /\ Violated(call[1].source_path, call[1].stat) = {4, 6}
    /\ ret[1].err[1].text = MsgAbs

(***************************************************************************)
(* C10: whichever check fails, the reason names the component: the record  *)
(* project_crates logs for a component that fails validation is a warning  *)
(* that carries the name of that component.                                *)
(***************************************************************************)
C10_ReasonNamesComponent ==
    \A i \in 1..Len(log) :
        log[i].text \in Range(ReasonTexts) =>
            /\ log[i].level = "warn"
            /\ log[i].crate_name # None
            /\ \E k \in 1..Len(DocComponents) :
                  log[i].crate_name = Some(DocComponents[k].component.name)

====
